---- MODULE Spec2Model ----
(***************************************************************************)
(* The kdbus name registry (names.c): well-known names, their owning       *)
(* connection, the per-name queue of waiting connections, the starter      *)
(* (activator) fallback, and the notifications each call emits.            *)
(*                                                                         *)
(* The registry state is carried through the C helpers as one record `s`   *)
(* so that a helper calling another helper (kdbus_name_remove_by_conn ->   *)
(* kdbus_name_entry_release -> kdbus_name_entry_attach ...) is modelled by *)
(* composing operators in the order of the C statements.                   *)
(***************************************************************************)
EXTENDS Integers, Sequences, FiniteSets, TLC

\* ------------------------------------------------------------------ bounds
\* Number of ioctl calls / disconnects explored in one behaviour.
MaxOps == 3
\* Number of calls in one behaviour of SpecDeep, which explores one name
\* and no failing service.
MaxDeep == 5
\* Number of calls started in one behaviour of SpecConc.
MaxConc == 3
\* Number of calls started in one behaviour of SpecEvict.
MaxEvict == 4
\* Length of the strings given to kdbus_name_is_valid() in SpecValid.
MaxName == 3
\* calls started while the threads wait for each other's locks
MaxLock == 3
\* calls and connection changes around KDBUS_CMD_NAME_LIST
MaxList == 3

\* ------------------------------------------------------- program constants
\* conn->names > KDBUS_CONN_MAX_NAMES is the quota test of
\* kdbus_cmd_name_acquire; the header that sets the value is not part of
\* the sources, the model uses a small value so that the test is exercised.
KDBUS_CONN_MAX_NAMES == 1
\* q - p > KDBUS_NAME_MAX_LEN in kdbus_name_is_valid.
KDBUS_NAME_MAX_LEN == 255

\* KDBUS_NAME_* flag bits, a flags word is the set of the bits that are set.
KDBUS_NAME_REPLACE_EXISTING == "REPLACE_EXISTING"
KDBUS_NAME_ALLOW_REPLACEMENT == "ALLOW_REPLACEMENT"
KDBUS_NAME_QUEUE == "QUEUE"
KDBUS_NAME_IN_QUEUE == "IN_QUEUE"

\* Notification kinds (KDBUS_ITEM_NAME_*).
KDBUS_ITEM_NAME_ADD == "ADD"
KDBUS_ITEM_NAME_CHANGE == "CHANGE"
KDBUS_ITEM_NAME_REMOVE == "REMOVE"

\* Return values.
OK == "OK"
EALREADY == "EALREADY"
EEXIST == "EEXIST"
ENOMEM == "ENOMEM"
EPERM == "EPERM"
ESRCH == "ESRCH"
ENXIO == "ENXIO"
EINVAL == "EINVAL"
E2BIG == "E2BIG"

\* ------------------------------------------------------------ the universe
\* Connections are named by their id (conn->id); 0 is "no connection"
\* (a NULL pointer, or the id 0 of a notification / of cmd_name->id).
Conns == {1, 2, 3}
NoConn == 0
\* conn->flags & KDBUS_HELLO_STARTER
Starters == {3}
KDBUS_HELLO_STARTER(c) == c \in Starters
\* kdbus_bus_uid_is_privileged() for the task that owns the connection
Privileged == {1}
kdbus_bus_uid_is_privileged(c) == c \in Privileged

\* Names are byte strings, one character per element.
NameAB == <<"a", ".", "b">>
NameCD == <<"c", ".", "d">>
NameBad == <<".", "a">>
CmdNames == {NameAB, NameCD, NameBad}
Names == {NameAB, NameCD}

\* Threads that make calls at the same time.
Threads == {"t1", "t2"}

\* Flag words passed in by callers.
ReqFlags == { {KDBUS_NAME_ALLOW_REPLACEMENT},
              {KDBUS_NAME_ALLOW_REPLACEMENT, KDBUS_NAME_QUEUE},
              {KDBUS_NAME_REPLACE_EXISTING},
              {KDBUS_NAME_REPLACE_EXISTING, KDBUS_NAME_ALLOW_REPLACEMENT,
               KDBUS_NAME_QUEUE},
              {KDBUS_NAME_QUEUE} }

\* A name without an entry in reg->entries_hash.
NoEntry == [conn |-> NoConn, flags |-> {}, starter |-> NoConn, queue_list |-> <<>>]

VARIABLES
    entries,           \* reg->entries_hash: name -> entry (or NoEntry)
    names,             \* conn->names
    names_list,        \* conn->names_list, entries linked by conn_entry
    names_queue_list,  \* conn->names_queue_list, the entry of each item
    spliced_names,     \* the local names_list of kdbus_name_remove_by_conn(c)
    spliced_queue,     \* the local names_queue_list of kdbus_name_remove_by_conn(c)
    refs,              \* the references the registry code took on each
                       \* connection (kdbus_conn_ref) and has not dropped
    connected,         \* the connection is still on the bus
    last,              \* the call that returned last: its arguments, the
                       \* flags of the entry it found (own), its results
    nops,              \* number of calls made
    pc,                \* where each thread is in the call it is making
    cur,               \* the call of each thread and its notification_list
    tickets,           \* number of reg->entries_lock sections entered
    broadcast,         \* the lock sections whose notifications were sent,
                       \* in the order of kdbus_conn_kmsg_list_send()
    name_p,            \* the string a caller passes to kdbus_name_is_valid()
    name_ok            \* what kdbus_name_is_valid() returned for it

vars == <<entries, names, names_list, names_queue_list, spliced_names,
          spliced_queue, refs, connected, last, nops, pc, cur, tickets,
          broadcast, name_p, name_ok>>
threadvars == <<pc, cur, tickets, broadcast>>
validvars == <<name_p, name_ok>>

\* ------------------------------------------------------------ list helpers
RECURSIVE IndexOf(_, _, _)
IndexOf(seq, x, i) ==
    IF i > Len(seq) THEN 0
    ELSE IF seq[i] = x THEN i
    ELSE IndexOf(seq, x, i + 1)

RemoveAt(seq, i) ==
    IF i = 0 THEN seq
    ELSE SubSeq(seq, 1, i - 1) \o SubSeq(seq, i + 1, Len(seq))

\* list_del() of the element x of an intrusive list
ListDel(seq, x) == RemoveAt(seq, IndexOf(seq, x, 1))

\* ------------------------------------------------- the registry as a value
\* The registry and connection fields the helpers read and write, together
\* with the notification_list the running call is filling.
\* held, order, trace and unprotected follow the locking of the thread that
\* makes the call: the locks it holds, the pairs <<lock held, lock taken>>
\* of its mutex_lock() calls, its mutex_lock() and mutex_unlock() calls in
\* the order it makes them, and the connections whose names_list,
\* names_queue_list or names counter it changed without holding their lock.
Reg == [entries |-> entries, names |-> names, names_list |-> names_list,
        names_queue_list |-> names_queue_list,
        spliced_names |-> spliced_names, spliced_queue |-> spliced_queue,
        refs |-> refs, notification_list |-> <<>>,
        held |-> {}, order |-> {}, trace |-> <<>>, unprotected |-> {}]

\* The locks: bus->lock, reg->entries_lock and conn->lock of a connection.
bus_lock == [lock |-> "bus", of |-> NoConn]
entries_lock == [lock |-> "entries", of |-> NoConn]
conn_lock(c) == [lock |-> "conn", of |-> c]

mutex_lock(s, l) ==
    [s EXCEPT !.order = @ \cup {<<h, l>> : h \in s.held},
              !.held = @ \cup {l},
              !.trace = Append(@, [op |-> "lock", lock |-> l])]
mutex_unlock(s, l) ==
    [s EXCEPT !.held = @ \ {l},
              !.trace = Append(@, [op |-> "unlock", lock |-> l])]

\* A write to a list or to the names counter of connection c.
conn_write(s, c) ==
    IF conn_lock(c) \in s.held THEN s
    ELSE [s EXCEPT !.unprotected = @ \cup {c}]

\* kdbus_conn_ref() and kdbus_conn_unref() as the registry code calls them;
\* unref of a NULL pointer does nothing.
kdbus_conn_ref(s, c) == [s EXCEPT !.refs[c] = @ + 1]
kdbus_conn_unref(s, c) ==
    IF c = NoConn THEN s ELSE [s EXCEPT !.refs[c] = @ - 1]

\* kdbus_notify_name_change(): append one record to the notification list
kdbus_notify_name_change(s, kind, old_id, new_id, flags, name) ==
    [s EXCEPT !.notification_list =
        Append(@, [kind |-> kind, old |-> old_id, new |-> new_id,
                   flags |-> flags, name |-> name])]

\* __kdbus_name_lookup(): the entry of a name, NoEntry when there is none
kdbus_name_lookup(s, name) ==
    IF name \in DOMAIN s.entries THEN s.entries[name] ELSE NoEntry

\* kdbus_name_entry_free(): kdbus_conn_unref() of e->conn and of
\* e->starter, hash_del() and kfree()
kdbus_name_entry_free(s, n) ==
    LET s1 == kdbus_conn_unref(s, s.entries[n].conn)
        s2 == kdbus_conn_unref(s1, s.entries[n].starter)
    IN [s2 EXCEPT !.entries[n] = NoEntry]

\* kdbus_name_queue_item_free(q) for the first item of connection c in the
\* queue of entry n: list_del() from the entry's queue_list and from the
\* list that holds q->conn_entry, which is the spliced list of a running
\* kdbus_name_remove_by_conn(c) for the items queued before the splice.
kdbus_name_queue_item_free(s, n, c) ==
    LET q == s.entries[n].queue_list
        i == CHOOSE k \in 0..Len(q) :
                /\ k > 0 => q[k].conn = c
                /\ \A j \in 1..Len(q) : q[j].conn = c => (k > 0 /\ k <= j)
        s1 == [s EXCEPT !.entries[n].queue_list = RemoveAt(q, i)]
    IN IF IndexOf(s.spliced_queue[c], n, 1) > 0
       THEN [s1 EXCEPT !.spliced_queue[c] = ListDel(@, n)]
       ELSE [conn_write(s1, c) EXCEPT !.names_queue_list[c] = ListDel(@, n)]

\* kdbus_name_entry_detach(): e->conn->names-- and list_del(&e->conn_entry);
\* list_del() unlinks the entry from whichever list it is linked in.
\* The lock taken is the one of e->conn, the list written is the one the
\* entry is linked in.
RECURSIVE conn_write_all(_, _)
conn_write_all(s, cs) ==
    IF cs = {} THEN s
    ELSE LET c == CHOOSE x \in cs : TRUE
         IN conn_write_all(conn_write(s, c), cs \ {c})

kdbus_name_entry_detach(s, n) ==
    LET c == s.entries[n].conn
        s1 == mutex_lock(s, conn_lock(c))
        s2 == conn_write_all(s1,
                  {c} \cup {x \in Conns : IndexOf(s.names_list[x], n, 1) > 0})
        s3 == [s2 EXCEPT !.names[c] = @ - 1,
                         !.names_list = [x \in Conns |-> ListDel(@[x], n)],
                         !.spliced_names =
                             [x \in Conns |-> ListDel(@[x], n)]]
    IN mutex_unlock(s3, conn_lock(c))

\* kdbus_name_entry_attach(): under conn->lock, e->conn =
\* kdbus_conn_ref(conn), link at the tail, conn->names++
kdbus_name_entry_attach(s, n, conn) ==
    LET s1 == mutex_lock(s, conn_lock(conn))
        s2 == kdbus_conn_ref(conn_write(s1, conn), conn)
        s3 == [s2 EXCEPT !.entries[n].conn = conn,
                         !.names_list[conn] = Append(@, n),
                         !.names[conn] = @ + 1]
    IN mutex_unlock(s3, conn_lock(conn))

\* kdbus_name_entry_release()
kdbus_name_entry_release(s, n) ==
    LET d == kdbus_name_entry_detach(s, n)
        e == d.entries[n]
    IN IF e.queue_list = <<>>
       THEN IF e.starter # NoConn
            THEN kdbus_name_entry_attach(
                     kdbus_notify_name_change(d, KDBUS_ITEM_NAME_CHANGE,
                         e.conn, e.starter, e.flags, n),
                     n, e.starter)
            ELSE kdbus_name_entry_free(
                     kdbus_notify_name_change(d, KDBUS_ITEM_NAME_REMOVE,
                         e.conn, 0, e.flags, n),
                     n)
       ELSE LET old_conn == e.conn
                q == Head(e.queue_list)
                d1 == [d EXCEPT !.entries[n].flags = q.flags]
                d2 == kdbus_name_entry_attach(d1, n, q.conn)
                d3 == kdbus_name_queue_item_free(d2, n, q.conn)
            IN kdbus_notify_name_change(d3, KDBUS_ITEM_NAME_CHANGE,
                   old_conn, d3.entries[n].conn, d3.entries[n].flags, n)

\* kdbus_name_release(): the state and the return value
kdbus_name_release(s, n, conn) ==
    LET e == s.entries[n] IN
    IF e.conn = conn
    THEN [s |-> kdbus_name_entry_release(s, n), ret |-> OK]
    ELSE IF \E i \in 1..Len(e.queue_list) : e.queue_list[i].conn = conn
    THEN [s |-> kdbus_name_queue_item_free(s, n, conn), ret |-> OK]
    ELSE [s |-> s, ret |-> EPERM]

\* kdbus_name_queue_conn() with list_add() in place of list_add_tail() for
\* the entry's queue_list
kdbus_name_queue_conn_head(s, conn, flags, n) ==
    [conn_write(s, conn) EXCEPT !.entries[n].queue_list =
                  <<[conn |-> conn, flags |-> flags]>> \o @,
              !.names_queue_list[conn] = Append(@, n)]

\* kdbus_name_queue_conn() with *flags |= KDBUS_NAME_IN_QUEUE made before
\* q->flags = *flags
kdbus_name_queue_conn_inqueue(s, conn, flags, n) ==
    [conn_write(s, conn) EXCEPT !.entries[n].queue_list =
                  Append(@, [conn |-> conn,
                             flags |-> flags \cup {KDBUS_NAME_IN_QUEUE}]),
              !.names_queue_list[conn] = Append(@, n)]

\* kdbus_name_queue_conn() once kzalloc() has succeeded: the item is linked
\* at the tail of both lists. The caller's flags word gets
\* KDBUS_NAME_IN_QUEUE, which the callers model.
kdbus_name_queue_conn(s, conn, flags, n) ==
    [conn_write(s, conn) EXCEPT !.entries[n].queue_list =
                  Append(@, [conn |-> conn, flags |-> flags]),
              !.names_queue_list[conn] = Append(@, n)]

\* kdbus_name_handle_conflict(): the state, the return value and the
\* caller's flags word after the call. alloc: kzalloc() succeeds; move:
\* kdbus_conn_move_messages() succeeds.
kdbus_name_handle_conflict(s, conn, n, flags, alloc, move) ==
    LET e == s.entries[n] IN
    IF /\ KDBUS_NAME_REPLACE_EXISTING \in flags
       /\ KDBUS_NAME_ALLOW_REPLACEMENT \in e.flags
    THEN
        IF KDBUS_NAME_QUEUE \in e.flags /\ ~alloc
        THEN [s |-> s, ret |-> ENOMEM, flags |-> flags]
        ELSE
          LET s1 == IF KDBUS_NAME_QUEUE \in e.flags
                    THEN [kdbus_name_queue_conn(s, e.conn, e.flags, n)
                            EXCEPT !.entries[n].flags =
                                       @ \cup {KDBUS_NAME_IN_QUEUE}]
                    ELSE s
              old_id == e.conn
          IN IF e.starter # NoConn /\ ~move
             THEN [s |-> s1, ret |-> ENOMEM, flags |-> flags]
             ELSE
               LET s2 == IF e.starter # NoConn
                         THEN [kdbus_conn_unref(
                                   kdbus_conn_ref(
                                       kdbus_conn_unref(s1, e.conn), conn),
                                   e.starter)
                                 EXCEPT !.entries[n].conn = conn,
                                        !.entries[n].starter = NoConn]
                         ELSE s1
                   s3 == kdbus_name_entry_detach(s2, n)
                   s4 == kdbus_name_entry_attach(s3, n, conn)
                   s5 == [s4 EXCEPT !.entries[n].flags = flags]
               IN [s |-> kdbus_notify_name_change(s5,
                             KDBUS_ITEM_NAME_CHANGE, old_id, conn, flags, n),
                   ret |-> OK, flags |-> flags]
    ELSE IF KDBUS_NAME_QUEUE \in flags
    THEN IF alloc
         THEN [s |-> kdbus_name_queue_conn(s, conn, flags, n), ret |-> OK,
               flags |-> flags \cup {KDBUS_NAME_IN_QUEUE}]
         ELSE [s |-> s, ret |-> ENOMEM, flags |-> flags]
    ELSE [s |-> s, ret |-> EEXIST, flags |-> flags]

\* kdbus_name_acquire() between mutex_lock() and mutex_unlock() of
\* reg->entries_lock: the state, the return value, the function's own
\* flags word at exit, and whether *entry was set.
kdbus_name_acquire_locked(s, conn, n, flags, alloc, move) ==
    LET e == kdbus_name_lookup(s, n) IN
    IF e # NoEntry
    THEN IF e.conn = conn
         THEN [s |-> [s EXCEPT !.entries[n].flags = flags],
               ret |-> EALREADY, flags |-> flags, entry |-> FALSE]
         ELSE LET r == kdbus_name_handle_conflict(s, conn, n, flags,
                                                  alloc, move)
              IN [s |-> r.s, ret |-> r.ret, flags |-> r.flags,
                  entry |-> FALSE]
    ELSE IF ~alloc
    THEN [s |-> s, ret |-> ENOMEM, flags |-> flags, entry |-> FALSE]
    ELSE
      LET f == IF KDBUS_HELLO_STARTER(conn)
               THEN {KDBUS_NAME_ALLOW_REPLACEMENT} ELSE flags
          s0 == IF KDBUS_HELLO_STARTER(conn)
                THEN kdbus_conn_ref(s, conn) ELSE s
          s1 == [s0 EXCEPT !.entries[n] =
                    [conn |-> NoConn, flags |-> f,
                     starter |-> IF KDBUS_HELLO_STARTER(conn)
                                 THEN conn ELSE NoConn,
                     queue_list |-> <<>>]]
          s2 == kdbus_name_entry_attach(s1, n, conn)
      IN [s |-> kdbus_notify_name_change(s2, KDBUS_ITEM_NAME_ADD, 0,
                    conn, f, n),
          ret |-> OK, flags |-> f, entry |-> TRUE]

\* kdbus_name_acquire()
kdbus_name_acquire(s, conn, n, flags, alloc, move) ==
    LET r == kdbus_name_acquire_locked(mutex_lock(s, entries_lock), conn,
                                       n, flags, alloc, move)
    IN [r EXCEPT !.s = mutex_unlock(@, entries_lock)]

\* kdbus_name_is_valid(): found_dot is read after the loop without having
\* been initialised; uninit is the value the variable happens to hold.
RECURSIVE kdbus_name_is_valid_loop(_, _, _, _)
kdbus_name_is_valid_loop(p, i, dot, found_dot) ==
    IF i > Len(p) THEN [ok |-> TRUE, dot |-> dot, found_dot |-> found_dot]
    ELSE IF p[i] = "."
    THEN IF dot
         THEN [ok |-> FALSE, dot |-> dot, found_dot |-> found_dot]
         ELSE kdbus_name_is_valid_loop(p, i + 1, TRUE, TRUE)
    ELSE LET isalpha == p[i] \in {"a", "b", "c", "d", "A", "Z"}
             isdigit == p[i] \in {"0", "1", "9"}
             good == isalpha \/ (~dot /\ isdigit) \/ p[i] = "_" \/ p[i] = "-"
         IN IF ~good
            THEN [ok |-> FALSE, dot |-> dot, found_dot |-> found_dot]
            ELSE kdbus_name_is_valid_loop(p, i + 1, FALSE, found_dot)

kdbus_name_is_valid(p, uninit) ==
    LET r == kdbus_name_is_valid_loop(p, 1, TRUE, uninit) IN
    IF ~r.ok THEN FALSE
    ELSE IF Len(p) > KDBUS_NAME_MAX_LEN THEN FALSE
    ELSE IF r.dot THEN FALSE
    ELSE IF ~r.found_dot THEN FALSE
    ELSE TRUE

\* kdbus_bus_find_conn_by_id(): the connections of bus->conn_hash
kdbus_bus_find_conn_by_id(id) ==
    IF id \in Conns /\ connected[id] THEN id ELSE NoConn

\* kdbus_cmd_name_acquire() up to the call of kdbus_name_acquire(): the
\* checks made before reg->entries_lock is taken. The state (the lookup of
\* the connection takes bus->lock), the return value, and the connection
\* the name is requested for. priv:
\* kdbus_bus_uid_is_privileged(); policy: no policy_db, or
\* kdbus_policy_db_check_own_access() grants the name.
kdbus_cmd_name_acquire_enter(s, caller, id, n, priv, policy, uninit) ==
    LET new_conn == kdbus_bus_find_conn_by_id(id)
        conn == IF id # 0 THEN new_conn ELSE caller
        s1 == IF id # 0
              THEN mutex_unlock(mutex_lock(s, bus_lock), bus_lock) ELSE s
    IN IF s.names[caller] > KDBUS_CONN_MAX_NAMES
       THEN [s |-> s, ret |-> E2BIG, conn |-> caller]
       ELSE IF ~kdbus_name_is_valid(n, uninit)
       THEN [s |-> s, ret |-> EINVAL, conn |-> caller]
       ELSE IF id # 0 /\ ~priv
       THEN [s |-> s, ret |-> EPERM, conn |-> caller]
       ELSE IF id # 0 /\ new_conn = NoConn
       THEN [s |-> s1, ret |-> ENXIO, conn |-> caller]
       ELSE IF ~policy THEN [s |-> s1, ret |-> EPERM, conn |-> conn]
       ELSE [s |-> s1, ret |-> OK, conn |-> conn]

\* kdbus_cmd_name_acquire(): the state, the return value, the connection
\* the name was requested for, and cmd_name->flags as the caller's buffer
\* holds it after the call: copy_to_user() writes cmd_name back when
\* kdbus_name_acquire() returned 0, and kdbus_name_acquire() got the flags
\* by value.
kdbus_cmd_name_acquire(s, caller, id, n, flags, priv, policy, alloc, move, uninit) ==
    LET enter == kdbus_cmd_name_acquire_enter(s, caller, id, n, priv,
                                              policy, uninit)
        cmd_flags == flags \ {KDBUS_NAME_IN_QUEUE}
        r == kdbus_name_acquire(enter.s, enter.conn, n, cmd_flags, alloc,
                                move)
    IN IF enter.ret # OK
       THEN [s |-> enter.s, ret |-> enter.ret, conn |-> enter.conn,
             flags |-> flags]
       ELSE [s |-> r.s, ret |-> r.ret, conn |-> enter.conn,
             flags |-> IF r.ret = OK THEN cmd_flags ELSE flags]

\* kdbus_cmd_name_release(): the state, the return value and the connection
\* the release was made for.
kdbus_cmd_name_release(s, caller, id, n, priv, uninit) ==
    LET e == kdbus_name_lookup(s, n)
        conn == IF e.conn # caller
                THEN kdbus_bus_find_conn_by_id(id) ELSE caller
        s1 == mutex_lock(s, entries_lock)
        s2 == IF e.conn # caller
              THEN mutex_unlock(mutex_lock(s1, bus_lock), bus_lock) ELSE s1
    IN IF ~kdbus_name_is_valid(n, uninit)
       THEN [s |-> s, ret |-> EINVAL, conn |-> caller]
       ELSE IF e = NoEntry
       THEN [s |-> mutex_unlock(s1, entries_lock), ret |-> ESRCH,
             conn |-> caller]
       ELSE IF e.conn # caller /\ ~priv
       THEN [s |-> mutex_unlock(s1, entries_lock), ret |-> EPERM,
             conn |-> caller]
       ELSE IF conn = NoConn
       THEN [s |-> mutex_unlock(s2, entries_lock), ret |-> EPERM,
             conn |-> conn]
       ELSE LET r == kdbus_name_release(s2, n, conn)
            IN [s |-> mutex_unlock(r.s, entries_lock), ret |-> r.ret,
                conn |-> conn]

\* A splice that returns with conn->lock held, so that reg->entries_lock
\* is taken inside conn->lock.
kdbus_name_remove_by_conn_splice_held(s, conn) ==
    LET s1 == conn_write(mutex_lock(s, conn_lock(conn)), conn)
    IN [s1 EXCEPT !.spliced_names[conn] = s.names_list[conn],
                  !.names_list[conn] = <<>>,
                  !.spliced_queue[conn] = s.names_queue_list[conn],
                  !.names_queue_list[conn] = <<>>]

\* kdbus_name_remove_by_conn(), first critical section (conn->lock):
\* list_splice_init() of both lists of the connection into local lists.
kdbus_name_remove_by_conn_splice(s, conn) ==
    LET s1 == conn_write(mutex_lock(s, conn_lock(conn)), conn)
        s2 == [s1 EXCEPT !.spliced_names[conn] = s.names_list[conn],
                         !.names_list[conn] = <<>>,
                         !.spliced_queue[conn] = s.names_queue_list[conn],
                         !.names_queue_list[conn] = <<>>]
    IN mutex_unlock(s2, conn_lock(conn))

\* ... second critical section (reg->entries_lock): free every queue item
\* of the local names_queue_list, then release every entry of the local
\* names_list.
RECURSIVE kdbus_name_remove_by_conn_queued(_, _)
kdbus_name_remove_by_conn_queued(s, conn) ==
    IF s.spliced_queue[conn] = <<>> THEN s
    ELSE kdbus_name_remove_by_conn_queued(
             kdbus_name_queue_item_free(s, Head(s.spliced_queue[conn]), conn),
             conn)

RECURSIVE kdbus_name_remove_by_conn_owned(_, _)
kdbus_name_remove_by_conn_owned(s, conn) ==
    IF s.spliced_names[conn] = <<>> THEN s
    ELSE kdbus_name_remove_by_conn_owned(
             kdbus_name_entry_release(s, Head(s.spliced_names[conn])), conn)

kdbus_name_remove_by_conn_locked(s, conn) ==
    mutex_unlock(
        kdbus_name_remove_by_conn_owned(
            kdbus_name_remove_by_conn_queued(
                mutex_lock(s, entries_lock), conn), conn),
        entries_lock)

kdbus_name_remove_by_conn(s, conn) ==
    kdbus_name_remove_by_conn_locked(
        kdbus_name_remove_by_conn_splice(s, conn), conn)

\* --------------------------------------------------------------- the state
Commit(s) ==
    /\ entries' = s.entries
    /\ names' = s.names
    /\ names_list' = s.names_list
    /\ names_queue_list' = s.names_queue_list
    /\ spliced_names' = s.spliced_names
    /\ spliced_queue' = s.spliced_queue
    /\ refs' = s.refs

NoCall == [op |-> "none", conn |-> NoConn, name |-> <<>>, flags |-> {},
           ret |-> OK, outflags |-> {}, own |-> {}, events |-> <<>>,
           order |-> {}, unprotected |-> {}, effect |-> TRUE]

\* What a call changed for the callers that follow it.
Registry(s) == [entries |-> s.entries, names |-> s.names,
                names_list |-> s.names_list,
                names_queue_list |-> s.names_queue_list]

\* What a thread keeps of the call it is making: the call and its
\* arguments, the connection it acts for, the ticket and the notifications
\* of its critical section, the locks it holds, the mutex_lock() and
\* mutex_unlock() calls it has yet to make before the point where it next
\* reads the registry, and cmd_list->flags, size, off and pos of
\* kdbus_cmd_name_list().
NoCur == [op |-> "none", caller |-> NoConn, id |-> 0, conn |-> NoConn,
          name |-> <<>>, flags |-> {}, env |-> "ok",
          ticket |-> 0, notification_list |-> <<>>,
          held |-> {}, todo |-> <<>>,
          list_flags |-> {}, size |-> 0, off |-> 0, pos |-> 0]

Init ==
    /\ entries = [n \in Names |-> NoEntry]
    /\ names = [c \in Conns |-> 0]
    /\ names_list = [c \in Conns |-> <<>>]
    /\ names_queue_list = [c \in Conns |-> <<>>]
    /\ spliced_names = [c \in Conns |-> <<>>]
    /\ spliced_queue = [c \in Conns |-> <<>>]
    /\ refs = [c \in Conns |-> 0]
    /\ connected = [c \in Conns |-> TRUE]
    /\ last = NoCall
    /\ nops = 0
    /\ pc = [t \in Threads |-> "idle"]
    /\ cur = [t \in Threads |-> NoCur]
    /\ tickets = 0
    /\ broadcast = <<>>
    /\ name_p = <<>>
    /\ name_ok = "none"

\* The behaviours explored make at most max calls, and a call that changed
\* nothing is followed by no other call: the calls after it would see the
\* state they see without it.
MayCall(max) == nops < max /\ last.effect

\* A connection issues KDBUS_CMD_NAME_ACQUIRE. env says which of the
\* services the call depends on fails.
CmdNameAcquire(max, caller, id, n, flags, env) ==
    /\ MayCall(max)
    /\ connected[caller]
    /\ LET r == kdbus_cmd_name_acquire(Reg, caller, id, n, flags,
                    kdbus_bus_uid_is_privileged(caller),
                    env # "policy", env # "alloc", env # "move", FALSE)
       IN /\ Commit(r.s)
          /\ last' = [op |-> "acquire", conn |-> r.conn, name |-> n,
                      flags |-> flags, ret |-> r.ret, outflags |-> r.flags,
                      own |-> kdbus_name_lookup(Reg, n).flags,
                      events |-> r.s.notification_list,
                      order |-> r.s.order,
                      unprotected |-> r.s.unprotected,
                      effect |-> Registry(r.s) # Registry(Reg)]
    /\ nops' = nops + 1
    /\ UNCHANGED <<connected, threadvars, validvars>>

\* A connection issues KDBUS_CMD_NAME_RELEASE.
CmdNameRelease(max, caller, id, n) ==
    /\ MayCall(max)
    /\ connected[caller]
    /\ LET r == kdbus_cmd_name_release(Reg, caller, id, n,
                    kdbus_bus_uid_is_privileged(caller), FALSE)
       IN /\ Commit(r.s)
          /\ last' = [op |-> "release", conn |-> r.conn, name |-> n,
                      flags |-> {}, ret |-> r.ret, outflags |-> {},
                      own |-> kdbus_name_lookup(Reg, n).flags,
                      events |-> r.s.notification_list,
                      order |-> r.s.order,
                      unprotected |-> r.s.unprotected,
                      effect |-> Registry(r.s) # Registry(Reg)]
    /\ nops' = nops + 1
    /\ UNCHANGED <<connected, threadvars, validvars>>

\* A connection goes away: it leaves the bus and its names are removed.
RemoveByConn(max, conn) ==
    /\ MayCall(max)
    /\ connected[conn]
    /\ LET s == kdbus_name_remove_by_conn(Reg, conn)
       IN /\ Commit(s)
          /\ last' = [op |-> "remove_by_conn", conn |-> conn, name |-> <<>>,
                      flags |-> {}, ret |-> OK, outflags |-> {}, own |-> {},
                      events |-> s.notification_list,
                      order |-> s.order, unprotected |-> s.unprotected,
                      effect |-> TRUE]
    /\ connected' = [connected EXCEPT ![conn] = FALSE]
    /\ nops' = nops + 1
    /\ UNCHANGED <<threadvars, validvars>>

\* The calls explored: every connection acquires and releases for itself
\* with every flags word; the privileged connection also acts on behalf of
\* the others, an unprivileged one tries to; one service at a time fails.
\* The policy check does not look at the name or the flags, and
\* kdbus_conn_move_messages() is called only for a request with
\* KDBUS_NAME_REPLACE_EXISTING, so their failures are explored for the
\* requests that can tell them apart.
Envs == {"ok", "policy", "alloc", "move"}
AcquireCalls ==
    {<<c, 0, n, f, env>> : c \in Conns, n \in Names, f \in ReqFlags,
                           env \in {"ok", "alloc"}}
    \cup {<<c, 0, NameAB, {KDBUS_NAME_QUEUE}, "policy">> : c \in Conns}
    \cup {<<c, 0, n, f, "move">> :
              c \in Conns, n \in Names,
              f \in {g \in ReqFlags : KDBUS_NAME_REPLACE_EXISTING \in g}}
    \cup {<<c, id, n, f, "ok">> :
              c \in Privileged, id \in Conns \ Privileged, n \in Names,
              f \in {{KDBUS_NAME_QUEUE}, {KDBUS_NAME_REPLACE_EXISTING}}}
    \cup {<<2, 1, NameAB, {KDBUS_NAME_QUEUE}, "ok">>}
    \cup {<<c, 0, NameBad, {KDBUS_NAME_QUEUE}, "ok">> : c \in Conns}
ReleaseCalls ==
    {<<c, id, n>> : c \in Privileged, id \in {0} \cup Conns, n \in CmdNames}
    \cup {<<c, id, n>> : c \in Conns \ Privileged, id \in {0, 1}, n \in Names}

Next ==
    \/ \E a \in AcquireCalls :
           CmdNameAcquire(MaxOps, a[1], a[2], a[3], a[4], a[5])
    \/ \E r \in ReleaseCalls : CmdNameRelease(MaxOps, r[1], r[2], r[3])
    \/ \E conn \in Conns : RemoveByConn(MaxOps, conn)

Spec == Init /\ [][Next]_vars

\* Longer behaviours on one name: the queue of a name needs an owner, two
\* waiters and a release before its order shows. The four flags words
\* give every combination of the bits the code tests: REPLACE_EXISTING and
\* QUEUE of the request, ALLOW_REPLACEMENT and QUEUE of the owner.
DeepFlags == { {KDBUS_NAME_ALLOW_REPLACEMENT},
               {KDBUS_NAME_REPLACE_EXISTING},
               {KDBUS_NAME_REPLACE_EXISTING, KDBUS_NAME_ALLOW_REPLACEMENT,
                KDBUS_NAME_QUEUE},
               {KDBUS_NAME_QUEUE} }
DeepAcquireCalls ==
    {<<c, 0, NameAB, f, "ok">> : c \in Conns, f \in DeepFlags}
DeepReleaseCalls ==
    {<<c, id, NameAB>> : c \in Privileged, id \in {0} \cup Conns}
    \cup {<<c, 0, NameAB>> : c \in Conns \ Privileged}

NextDeep ==
    \/ \E a \in DeepAcquireCalls :
           CmdNameAcquire(MaxDeep, a[1], a[2], a[3], a[4], a[5])
    \/ \E r \in DeepReleaseCalls : CmdNameRelease(MaxDeep, r[1], r[2], r[3])
    \/ \E conn \in Conns : RemoveByConn(MaxDeep, conn)

SpecDeep == Init /\ [][NextDeep]_vars

\* ------------------------------------------------- kdbus_name_is_valid()
\* The strings checked: every string of up to MaxName bytes over a letter,
\* a digit, the period, the underscore and a byte no name may hold.
NameBytes == {"a", "1", ".", "_", " "}
ValidInputs == UNION {[1..len -> NameBytes] : len \in 0..MaxName}

InitValid ==
    /\ entries = [n \in Names |-> NoEntry]
    /\ names = [c \in Conns |-> 0]
    /\ names_list = [c \in Conns |-> <<>>]
    /\ names_queue_list = [c \in Conns |-> <<>>]
    /\ spliced_names = [c \in Conns |-> <<>>]
    /\ spliced_queue = [c \in Conns |-> <<>>]
    /\ refs = [c \in Conns |-> 0]
    /\ connected = [c \in Conns |-> TRUE]
    /\ last = NoCall
    /\ nops = 0
    /\ pc = [t \in Threads |-> "idle"]
    /\ cur = [t \in Threads |-> NoCur]
    /\ tickets = 0
    /\ broadcast = <<>>
    /\ name_p \in ValidInputs
    /\ name_ok = "none"

\* A call of kdbus_name_is_valid(name_p). found_dot is not initialised:
\* when it is read before it was written it holds either value.
NameIsValid ==
    /\ name_ok = "none"
    /\ \E uninit \in BOOLEAN :
           name_ok' = IF kdbus_name_is_valid(name_p, uninit)
                      THEN "true" ELSE "false"
    /\ UNCHANGED <<entries, names, names_list, names_queue_list,
                   spliced_names, spliced_queue, refs, connected, last,
                   nops, threadvars, name_p>>

NextValid == NameIsValid

SpecValid == InitValid /\ [][NextValid]_vars

\* ------------------------------------------------------ concurrent calls
\* Threads make the calls at the same time. What a call does while it holds
\* reg->entries_lock is one step; what it does before it takes the lock and
\* after it has released it are steps of their own.

\* kdbus_cmd_name_acquire() before the lock: the checks, and the lookup of
\* the connection. A call that fails here returns.
ConcAcquireEnter(max, t, caller, id, n, flags, env) ==
    /\ nops < max
    /\ pc[t] = "idle"
    /\ connected[caller]
    /\ LET enter == kdbus_cmd_name_acquire_enter(Reg, caller, id, n,
                        kdbus_bus_uid_is_privileged(caller),
                        env # "policy", FALSE)
       IN IF enter.ret = OK
          THEN /\ pc' = [pc EXCEPT ![t] = "acquire"]
               /\ cur' = [cur EXCEPT ![t] =
                             [NoCur EXCEPT
                                 !.conn = enter.conn, !.name = n,
                                 !.flags = flags \ {KDBUS_NAME_IN_QUEUE},
                                 !.env = env]]
          ELSE UNCHANGED <<pc, cur>>
    /\ nops' = nops + 1
    /\ UNCHANGED <<entries, names, names_list, names_queue_list,
                   spliced_names, spliced_queue, refs, connected, last,
                   tickets, broadcast, validvars>>

\* kdbus_name_acquire() from mutex_lock() to mutex_unlock()
ConcAcquireLocked(t) ==
    /\ pc[t] = "acquire"
    /\ LET r == kdbus_name_acquire(Reg, cur[t].conn, cur[t].name,
                    cur[t].flags, cur[t].env # "alloc",
                    cur[t].env # "move")
       IN /\ Commit(r.s)
          /\ cur' = [cur EXCEPT ![t].ticket = tickets + 1,
                                ![t].notification_list =
                                    r.s.notification_list]
    /\ tickets' = tickets + 1
    /\ pc' = [pc EXCEPT ![t] = "send"]
    /\ UNCHANGED <<connected, last, nops, broadcast, validvars>>

\* kdbus_cmd_name_release() from mutex_lock() to mutex_unlock()
ConcReleaseLocked(max, t, caller, id, n) ==
    /\ nops < max
    /\ pc[t] = "idle"
    /\ connected[caller]
    /\ LET r == kdbus_cmd_name_release(Reg, caller, id, n,
                    kdbus_bus_uid_is_privileged(caller), FALSE)
       IN /\ Commit(r.s)
          /\ cur' = [cur EXCEPT ![t] =
                        [NoCur EXCEPT
                            !.conn = r.conn, !.name = n,
                            !.ticket = tickets + 1,
                            !.notification_list = r.s.notification_list]]
    /\ tickets' = tickets + 1
    /\ pc' = [pc EXCEPT ![t] = "send"]
    /\ nops' = nops + 1
    /\ UNCHANGED <<connected, last, broadcast, validvars>>

\* kdbus_name_remove_by_conn() from mutex_lock(&conn->lock) to
\* mutex_unlock(&conn->lock), for a connection that goes away
ConcRemoveSplice(max, t, conn) ==
    /\ nops < max
    /\ pc[t] = "idle"
    /\ connected[conn]
    /\ Commit(kdbus_name_remove_by_conn_splice(Reg, conn))
    /\ connected' = [connected EXCEPT ![conn] = FALSE]
    /\ cur' = [cur EXCEPT ![t] = [NoCur EXCEPT !.conn = conn]]
    /\ pc' = [pc EXCEPT ![t] = "remove"]
    /\ nops' = nops + 1
    /\ UNCHANGED <<last, tickets, broadcast, validvars>>

\* kdbus_name_remove_by_conn() from mutex_lock(&reg->entries_lock) to
\* mutex_unlock(&reg->entries_lock)
ConcRemoveLocked(t) ==
    /\ pc[t] = "remove"
    /\ LET s == kdbus_name_remove_by_conn_locked(Reg, cur[t].conn)
       IN /\ Commit(s)
          /\ cur' = [cur EXCEPT ![t].ticket = tickets + 1,
                                ![t].notification_list =
                                    s.notification_list]
    /\ tickets' = tickets + 1
    /\ pc' = [pc EXCEPT ![t] = "send"]
    /\ UNCHANGED <<connected, last, nops, broadcast, validvars>>

\* kdbus_conn_kmsg_list_send() after mutex_unlock(): the notifications of
\* the call go out, and the call returns. An empty list sends nothing.
ConcSend(t) ==
    /\ pc[t] = "send"
    /\ broadcast' = IF cur[t].notification_list = <<>> THEN broadcast
                    ELSE Append(broadcast, cur[t].ticket)
    /\ pc' = [pc EXCEPT ![t] = "idle"]
    /\ cur' = [cur EXCEPT ![t] = NoCur]
    /\ UNCHANGED <<entries, names, names_list, names_queue_list,
                   spliced_names, spliced_queue, refs, connected, last,
                   nops, tickets, validvars>>

ConcFlags == { {KDBUS_NAME_ALLOW_REPLACEMENT, KDBUS_NAME_QUEUE},
               {KDBUS_NAME_REPLACE_EXISTING},
               {KDBUS_NAME_QUEUE} }
ConcAcquireCalls ==
    {<<c, 0, n, f, "ok">> : c \in Conns, n \in Names, f \in ConcFlags}
    \cup {<<2, 1, NameAB, {KDBUS_NAME_QUEUE}, "ok">>}
ConcReleaseCalls ==
    {<<c, id, n>> : c \in Privileged, id \in {0} \cup Conns, n \in Names}
    \cup {<<c, 0, n>> : c \in Conns \ Privileged, n \in Names}

NextConc ==
    \/ \E t \in Threads, a \in ConcAcquireCalls :
           ConcAcquireEnter(MaxConc, t, a[1], a[2], a[3], a[4], a[5])
    \/ \E t \in Threads : ConcAcquireLocked(t)
    \/ \E t \in Threads, r \in ConcReleaseCalls :
           ConcReleaseLocked(MaxConc, t, r[1], r[2], r[3])
    \/ \E t \in Threads, conn \in Conns :
           ConcRemoveSplice(MaxConc, t, conn)
    \/ \E t \in Threads : ConcRemoveLocked(t)
    \/ \E t \in Threads : ConcSend(t)

SpecConc == Init /\ [][NextConc]_vars

\* A connection goes away while other connections make calls on one name.
\* The connection that goes away has no call in flight that acts for it:
\* what is explored is what the calls of the other connections do to it
\* between the two critical sections of kdbus_name_remove_by_conn().
EvictSplice(t, conn) ==
    /\ \A u \in Threads : pc[u] = "idle" \/ cur[u].conn # conn
    /\ ConcRemoveSplice(MaxEvict, t, conn)

EvictAcquireCalls ==
    {<<c, 0, NameAB, f, "ok">> : c \in Conns, f \in ConcFlags}
EvictReleaseCalls == {<<c, 0, NameAB>> : c \in Conns}

NextEvict ==
    \/ \E t \in Threads, a \in EvictAcquireCalls :
           ConcAcquireEnter(MaxEvict, t, a[1], a[2], a[3], a[4], a[5])
    \/ \E t \in Threads : ConcAcquireLocked(t)
    \/ \E t \in Threads, r \in EvictReleaseCalls :
           ConcReleaseLocked(MaxEvict, t, r[1], r[2], r[3])
    \/ \E t \in Threads, conn \in Conns : EvictSplice(t, conn)
    \/ \E t \in Threads : ConcRemoveLocked(t)
    \/ \E t \in Threads : ConcSend(t)

SpecEvict == Init /\ [][NextEvict]_vars

\* ------------------------------------------------------ calls and locks
\* Threads make the calls at the same time, and a mutex_lock() of a lock
\* another thread holds waits. A step is one mutex_lock() or mutex_unlock().
\* What a call does between the mutex_lock() of reg->entries_lock and its
\* mutex_unlock() is applied when the lock is taken, no other thread enters
\* such a section before the lock is released; the locks the section takes
\* and releases inside are the steps that follow. The same holds for the
\* splice of kdbus_name_remove_by_conn() under conn->lock and for the lookup
\* of kdbus_cmd_name_acquire() under bus->lock.
LockHeld(l) == \E u \in Threads : l \in cur[u].held

\* kdbus_cmd_name_acquire() up to its first mutex_lock(); a call that fails
\* before it returns.
LockAcquireStart(t, caller, id, n, flags) ==
    /\ nops < MaxLock
    /\ pc[t] = "idle"
    /\ connected[caller]
    /\ LET enter == kdbus_cmd_name_acquire_enter(Reg, caller, id, n,
                        kdbus_bus_uid_is_privileged(caller), TRUE, FALSE)
           first == IF enter.s.trace # <<>> THEN <<Head(enter.s.trace)>>
                    ELSE <<[op |-> "lock", lock |-> entries_lock]>>
       IN IF enter.s.trace = <<>> /\ enter.ret # OK
          THEN UNCHANGED <<pc, cur>>
          ELSE /\ pc' = [pc EXCEPT ![t] = "lock"]
               /\ cur' = [cur EXCEPT ![t] =
                             [NoCur EXCEPT
                                 !.op = "acquire", !.caller = caller,
                                 !.id = id, !.conn = enter.conn, !.name = n,
                                 !.flags = flags \ {KDBUS_NAME_IN_QUEUE},
                                 !.held = cur[t].held, !.todo = first]]
    /\ nops' = nops + 1
    /\ UNCHANGED <<entries, names, names_list, names_queue_list,
                   spliced_names, spliced_queue, refs, connected, last,
                   tickets, broadcast, validvars>>

\* kdbus_cmd_name_release() up to mutex_lock(&reg->entries_lock)
LockReleaseStart(t, caller, id, n) ==
    /\ nops < MaxLock
    /\ pc[t] = "idle"
    /\ connected[caller]
    /\ LET r == kdbus_cmd_name_release(Reg, caller, id, n,
                    kdbus_bus_uid_is_privileged(caller), FALSE)
       IN IF r.s.trace = <<>>
          THEN UNCHANGED <<pc, cur>>
          ELSE /\ pc' = [pc EXCEPT ![t] = "lock"]
               /\ cur' = [cur EXCEPT ![t] =
                             [NoCur EXCEPT
                                 !.op = "release", !.caller = caller,
                                 !.id = id, !.conn = caller, !.name = n,
                                 !.held = cur[t].held,
                                 !.todo = <<Head(r.s.trace)>>]]
    /\ nops' = nops + 1
    /\ UNCHANGED <<entries, names, names_list, names_queue_list,
                   spliced_names, spliced_queue, refs, connected, last,
                   tickets, broadcast, validvars>>

\* kdbus_name_remove_by_conn() up to mutex_lock(&conn->lock), for a
\* connection that goes away
LockRemoveStart(t, conn) ==
    /\ nops < MaxLock
    /\ pc[t] = "idle"
    /\ connected[conn]
    /\ connected' = [connected EXCEPT ![conn] = FALSE]
    /\ pc' = [pc EXCEPT ![t] = "lock"]
    /\ cur' = [cur EXCEPT ![t] =
                  [NoCur EXCEPT
                      !.op = "remove", !.conn = conn,
                      !.held = cur[t].held,
                      !.todo = <<Head(kdbus_name_remove_by_conn_splice(
                                          Reg, conn).trace)>>]]
    /\ nops' = nops + 1
    /\ UNCHANGED <<entries, names, names_list, names_queue_list,
                   spliced_names, spliced_queue, refs, last,
                   tickets, broadcast, validvars>>

\* What thread t does from the mutex_lock() of l to the point where it next
\* reads the registry: the state its section leaves, the connection the call
\* acts for, and the mutex_lock() and mutex_unlock() calls that follow.
LockSection(t, l) ==
    LET c == cur[t]
        enter == kdbus_cmd_name_acquire_enter(Reg, c.caller, c.id, c.name,
                     kdbus_bus_uid_is_privileged(c.caller), TRUE, FALSE)
        acq == kdbus_name_acquire(Reg, c.conn, c.name, c.flags, TRUE, TRUE)
        rel == kdbus_cmd_name_release(Reg, c.caller, c.id, c.name,
                   kdbus_bus_uid_is_privileged(c.caller), FALSE)
        spl == kdbus_name_remove_by_conn_splice(Reg, c.conn)
        rem == kdbus_name_remove_by_conn_locked(Reg, c.conn)
        next == <<[op |-> "lock", lock |-> entries_lock]>>
    IN IF c.op = "acquire" /\ l = bus_lock
       THEN [s |-> Reg, conn |-> enter.conn,
             todo |-> Tail(enter.s.trace)
                      \o (IF enter.ret = OK THEN next ELSE <<>>)]
       ELSE IF c.op = "acquire" /\ l = entries_lock
       THEN [s |-> acq.s, conn |-> c.conn,
             todo |-> Tail(acq.s.trace) \o Tail(c.todo)]
       ELSE IF c.op = "release" /\ l = entries_lock
       THEN [s |-> rel.s, conn |-> rel.conn,
             todo |-> Tail(rel.s.trace) \o Tail(c.todo)]
       ELSE IF c.op = "remove" /\ l = conn_lock(c.conn) /\ c.held = {}
       THEN [s |-> spl, conn |-> c.conn, todo |-> Tail(spl.trace) \o next]
       ELSE IF c.op = "remove" /\ l = entries_lock
       THEN [s |-> rem, conn |-> c.conn,
             todo |-> Tail(rem.trace) \o Tail(c.todo)]
       ELSE [s |-> Reg, conn |-> c.conn, todo |-> Tail(c.todo)]

\* mutex_lock(): the thread goes on when no thread holds the lock
LockTake(t) ==
    /\ pc[t] = "lock"
    /\ cur[t].todo # <<>>
    /\ Head(cur[t].todo).op = "lock"
    /\ ~LockHeld(Head(cur[t].todo).lock)
    /\ LET l == Head(cur[t].todo).lock
           r == LockSection(t, l)
       IN /\ Commit(r.s)
          /\ cur' = [cur EXCEPT ![t].held = @ \cup {l},
                                ![t].conn = r.conn,
                                ![t].todo = r.todo]
    /\ UNCHANGED <<connected, last, nops, pc, tickets, broadcast,
                   validvars>>

\* mutex_unlock()
LockDrop(t) ==
    /\ pc[t] = "lock"
    /\ cur[t].todo # <<>>
    /\ Head(cur[t].todo).op = "unlock"
    /\ cur' = [cur EXCEPT ![t].held = @ \ {Head(cur[t].todo).lock},
                          ![t].todo = Tail(@)]
    /\ UNCHANGED <<entries, names, names_list, names_queue_list,
                   spliced_names, spliced_queue, refs, connected, last,
                   nops, pc, tickets, broadcast, validvars>>

\* The call returns after its last mutex_unlock().
LockReturn(t) ==
    /\ pc[t] = "lock"
    /\ cur[t].todo = <<>>
    /\ pc' = [pc EXCEPT ![t] = "idle"]
    /\ cur' = [cur EXCEPT ![t] = [NoCur EXCEPT !.held = cur[t].held]]
    /\ UNCHANGED <<entries, names, names_list, names_queue_list,
                   spliced_names, spliced_queue, refs, connected, last,
                   nops, tickets, broadcast, validvars>>

LockFlags == { {KDBUS_NAME_ALLOW_REPLACEMENT, KDBUS_NAME_QUEUE},
               {KDBUS_NAME_REPLACE_EXISTING} }
LockAcquireCalls ==
    {<<c, 0, NameAB, f>> : c \in Conns, f \in LockFlags}
    \cup {<<1, 2, NameAB, {KDBUS_NAME_QUEUE}>>,
          <<1, 3, NameAB, {KDBUS_NAME_REPLACE_EXISTING}>>}
LockReleaseCalls ==
    {<<c, id, NameAB>> : c \in Privileged, id \in {0} \cup Conns}
    \cup {<<c, 0, NameAB>> : c \in Conns \ Privileged}

NextLock ==
    \/ \E t \in Threads, a \in LockAcquireCalls :
           LockAcquireStart(t, a[1], a[2], a[3], a[4])
    \/ \E t \in Threads, r \in LockReleaseCalls :
           LockReleaseStart(t, r[1], r[2], r[3])
    \/ \E t \in Threads, conn \in Conns : LockRemoveStart(t, conn)
    \/ \E t \in Threads : LockTake(t)
    \/ \E t \in Threads : LockDrop(t)
    \/ \E t \in Threads : LockReturn(t)

SpecLock == Init /\ [][NextLock]_vars

\* mutex_lock() of thread t can return: ENABLED <<LockTake(t)>>_vars
CanTake(t) ==
    /\ pc[t] = "lock"
    /\ cur[t].todo # <<>>
    /\ Head(cur[t].todo).op = "lock"
    /\ ~LockHeld(Head(cur[t].todo).lock)

\* The scheduler runs every thread that can run, and a thread that waits
\* for a lock goes on once the lock stays free: weak fairness of every step
\* of every thread. The last conjunct is WF_vars(LockTake(t)) with its
\* ENABLED written as the state predicate CanTake(t).
SpecLockFair ==
    /\ SpecLock
    /\ \A t \in Threads :
           /\ WF_vars(LockDrop(t))
           /\ WF_vars(LockReturn(t))
           /\ ([]<>(~CanTake(t)) \/ []<><<LockTake(t)>>_vars)

\* ------------------------------------------------- KDBUS_CMD_NAME_LIST
\* cmd_list->flags
KDBUS_NAME_LIST_UNIQUE == "LIST_UNIQUE"
KDBUS_NAME_LIST_NAMES == "LIST_NAMES"
KDBUS_NAME_LIST_STARTERS == "LIST_STARTERS"
KDBUS_NAME_LIST_QUEUED == "LIST_QUEUED"
ListFlags == SUBSET {KDBUS_NAME_LIST_UNIQUE, KDBUS_NAME_LIST_NAMES,
                     KDBUS_NAME_LIST_STARTERS, KDBUS_NAME_LIST_QUEUED}

\* sizeof(struct kdbus_name_list): the u64 size; sizeof(struct
\* kdbus_cmd_name): the four u64 size, flags, id and conn_flags
SizeofNameList == 8
SizeofCmdName == 32
KDBUS_ALIGN8(x) == ((x + 7) \div 8) * 8
strlen(name) == Len(name)

\* hash_for_each(bus->conn_hash, ...) with the filter of the starters: the
\* connections a pass of kdbus_cmd_name_list() visits
ListConns(hash, flags) ==
    {c \in Conns : /\ hash[c]
                   /\ (KDBUS_NAME_LIST_STARTERS \in flags
                       \/ ~KDBUS_HELLO_STARTER(c))}

\* hash_for_each(reg->entries_hash, ...) with the filters of the starters
\* and of the queued names: the names a pass visits
ListNames(s, flags) ==
    {n \in Names :
        /\ s.entries[n] # NoEntry
        /\ (KDBUS_NAME_LIST_STARTERS \in flags
            \/ s.entries[n].starter = NoConn)
        /\ (KDBUS_NAME_LIST_QUEUED \in flags
            \/ KDBUS_NAME_QUEUE \notin s.entries[n].flags)}

\* pass 1, the names: size += KDBUS_ALIGN8(sizeof(struct kdbus_cmd_name) +
\* strlen(e->name) + 1) for every name visited
RECURSIVE ListNamesSize(_)
ListNamesSize(ns) ==
    IF ns = {} THEN 0
    ELSE LET n == CHOOSE x \in ns : TRUE
         IN KDBUS_ALIGN8(SizeofCmdName + strlen(n) + 1)
            + ListNamesSize(ns \ {n})

\* pass 2, the names: pos += sizeof(struct kdbus_cmd_name), then
\* pos += KDBUS_ALIGN8(strlen(e->name) + 1) for every name visited
RECURSIVE ListNamesWrite(_, _)
ListNamesWrite(ns, pos) ==
    IF ns = {} THEN pos
    ELSE LET n == CHOOSE x \in ns : TRUE
         IN ListNamesWrite(ns \ {n},
                pos + SizeofCmdName + KDBUS_ALIGN8(strlen(n) + 1))

\* kdbus_cmd_name_list(), pass 1: the size of the return buffer
kdbus_cmd_name_list_size(s, hash, flags) ==
    SizeofNameList
    + (IF KDBUS_NAME_LIST_UNIQUE \in flags
       THEN Cardinality(ListConns(hash, flags)) * KDBUS_ALIGN8(SizeofCmdName)
       ELSE 0)
    + (IF KDBUS_NAME_LIST_NAMES \in flags
       THEN ListNamesSize(ListNames(s, flags)) ELSE 0)

\* kdbus_cmd_name_list(), pass 2: pos after the header and every record
\* have been written with kdbus_pool_write() into the slice at off
kdbus_cmd_name_list_write(s, hash, flags, off) ==
    LET pos0 == off + SizeofNameList
        pos1 == IF KDBUS_NAME_LIST_UNIQUE \in flags
                THEN pos0 + Cardinality(ListConns(hash, flags))
                            * KDBUS_ALIGN8(SizeofCmdName)
                ELSE pos0
    IN IF KDBUS_NAME_LIST_NAMES \in flags
       THEN ListNamesWrite(ListNames(s, flags), pos1) ELSE pos1

\* A thread has taken reg->entries_lock in kdbus_cmd_name_list() and has
\* not released it.
Listing == \E t \in Threads : pc[t] \in {"list", "listed"}

\* kdbus_cmd_name_list() from mutex_lock(&reg->entries_lock) to
\* kdbus_pool_alloc(): the size, and the slice of that size at off. The
\* pool is empty, the slice starts at 0.
ListPass1(t, flags) ==
    /\ nops < MaxList
    /\ pc[t] = "idle"
    /\ ~Listing
    /\ pc' = [pc EXCEPT ![t] = "list"]
    /\ cur' = [cur EXCEPT ![t] =
                  [NoCur EXCEPT
                      !.op = "list", !.list_flags = flags,
                      !.held = {entries_lock},
                      !.size = kdbus_cmd_name_list_size(Reg, connected,
                                                        flags),
                      !.off = 0, !.pos = 0]]
    /\ nops' = nops + 1
    /\ UNCHANGED <<entries, names, names_list, names_queue_list,
                   spliced_names, spliced_queue, refs, connected, last,
                   tickets, broadcast, validvars>>

\* ... from the copy of the header to the last kdbus_pool_write()
ListPass2(t) ==
    /\ pc[t] = "list"
    /\ pc' = [pc EXCEPT ![t] = "listed"]
    /\ cur' = [cur EXCEPT ![t].pos =
                  kdbus_cmd_name_list_write(Reg, connected,
                                            cur[t].list_flags, cur[t].off)]
    /\ UNCHANGED <<entries, names, names_list, names_queue_list,
                   spliced_names, spliced_queue, refs, connected, last,
                   nops, tickets, broadcast, validvars>>

\* ... mutex_unlock(&reg->entries_lock) and return
ListReturn(t) ==
    /\ pc[t] = "listed"
    /\ pc' = [pc EXCEPT ![t] = "idle"]
    /\ cur' = [cur EXCEPT ![t] = NoCur]
    /\ UNCHANGED <<entries, names, names_list, names_queue_list,
                   spliced_names, spliced_queue, refs, connected, last,
                   nops, tickets, broadcast, validvars>>

\* Another task adds a connection to bus->conn_hash or removes one that
\* holds no name and waits for none. bus->conn_hash is guarded by bus->lock,
\* which kdbus_cmd_name_list() does not take: the change can come between
\* its passes.
ListConnect(c) ==
    /\ nops < MaxList
    /\ ~connected[c]
    /\ connected' = [connected EXCEPT ![c] = TRUE]
    /\ nops' = nops + 1
    /\ UNCHANGED <<entries, names, names_list, names_queue_list,
                   spliced_names, spliced_queue, refs, last, threadvars,
                   validvars>>

ListDisconnect(c) ==
    /\ nops < MaxList
    /\ connected[c]
    /\ names_list[c] = <<>>
    /\ names_queue_list[c] = <<>>
    /\ connected' = [connected EXCEPT ![c] = FALSE]
    /\ nops' = nops + 1
    /\ UNCHANGED <<entries, names, names_list, names_queue_list,
                   spliced_names, spliced_queue, refs, last, threadvars,
                   validvars>>

\* KDBUS_CMD_NAME_ACQUIRE and KDBUS_CMD_NAME_RELEASE of other tasks: they
\* change the registry under reg->entries_lock, so not while a task is in
\* kdbus_cmd_name_list().
ListAcquire(caller, id, n, flags, env) ==
    /\ ~Listing
    /\ CmdNameAcquire(MaxList, caller, id, n, flags, env)

ListRelease(caller, id, n) ==
    /\ ~Listing
    /\ CmdNameRelease(MaxList, caller, id, n)

ListAcquireCalls ==
    {<<c, 0, n, f, "ok">> : c \in Conns, n \in Names, f \in LockFlags}
ListReleaseCalls == {<<c, 0, n>> : c \in Conns, n \in Names}

NextList ==
    \/ \E t \in Threads, flags \in ListFlags : ListPass1(t, flags)
    \/ \E t \in Threads : ListPass2(t)
    \/ \E t \in Threads : ListReturn(t)
    \/ \E c \in Conns : ListConnect(c)
    \/ \E c \in Conns : ListDisconnect(c)
    \/ \E a \in ListAcquireCalls :
           ListAcquire(a[1], a[2], a[3], a[4], a[5])
    \/ \E r \in ListReleaseCalls : ListRelease(r[1], r[2], r[3])

SpecList == Init /\ [][NextList]_vars

\* ------------------------------------------------------------------ claims
IsEntry(n) == entries[n] # NoEntry
InList(seq, x) == \E i \in 1..Len(seq) : seq[i] = x
Waits(n, c) == \E i \in 1..Len(entries[n].queue_list) :
                   entries[n].queue_list[i].conn = c
Event(kind, old, new, flags, name) ==
    [kind |-> kind, old |-> old, new |-> new, flags |-> flags, name |-> name]
\* the call that returned last reached kdbus_name_acquire()
Acquired(l) == l.op = "acquire" /\ l.ret \in {OK, EALREADY, EEXIST, ENOMEM}

\* C1: owner accounting. Every connection's names counter equals the length
\* of its names_list, every entry linked in a connection's names_list is
\* owned by that connection, and every indexed entry is linked in its
\* owner's names_list.
C1_OwnerAccounting ==
    /\ \A c \in Conns :
          /\ names[c] = Len(names_list[c])
          /\ \A i \in 1..Len(names_list[c]) :
                 entries[names_list[c][i]].conn = c
    /\ \A n \in Names :
          IsEntry(n) => InList(names_list[entries[n].conn], n)

\* C2: eviction completeness. When kdbus_name_remove_by_conn(C) has
\* returned, no entry is owned by C and no queue holds an item of C.
C2_EvictionComplete ==
    last.op = "remove_by_conn" =>
        \A n \in Names : entries[n].conn # last.conn /\ ~Waits(n, last.conn)

\* old is a subsequence of seq: seq with some elements unlinked
RECURSIVE IsSubSeq(_, _)
IsSubSeq(sub, seq) ==
    IF sub = <<>> THEN TRUE
    ELSE IF seq = <<>> THEN FALSE
    ELSE IF Head(sub) = Head(seq) THEN IsSubSeq(Tail(sub), Tail(seq))
    ELSE IsSubSeq(sub, Tail(seq))

\* the queue of entry n without the items of connection c
QueueWithout(n, c) ==
    SelectSeq(entries[n].queue_list, LAMBDA q : q.conn # c)

\* the owner gave up entry n in the step: it released it, or it went away
OwnerLeaves(n) ==
    IF /\ last'.op = "release" /\ last'.ret = OK /\ last'.name = n
       /\ last'.conn = entries[n].conn
    THEN entries[n].queue_list
    ELSE IF last'.op = "remove_by_conn" /\ last'.conn = entries[n].conn
    THEN QueueWithout(n, last'.conn)
    ELSE <<>>

\* C3: FIFO promotion. A step that makes the queue of a name longer adds
\* one item behind the items that were queued, every other step leaves the
\* remaining items in their order; and when the owner releases the name or
\* goes away while other connections wait, the head of the queue becomes
\* the owner with the flags of its queue item, and leaves the queue.
C3_FifoPromotion ==
    [][\A n \in Names :
          IsEntry(n) =>
            LET old == entries[n].queue_list
                new == entries'[n].queue_list
                waiting == OwnerLeaves(n)
            IN /\ Len(new) > Len(old) =>
                     /\ Len(new) = Len(old) + 1
                     /\ SubSeq(new, 1, Len(old)) = old
               /\ Len(new) <= Len(old) => IsSubSeq(new, old)
               /\ waiting # <<>> =>
                     /\ entries'[n].conn = Head(waiting).conn
                     /\ entries'[n].flags = Head(waiting).flags
                     /\ new = Tail(waiting)
      ]_vars

\* C3 witness: a release promoted the head of a queue in which another
\* connection is still waiting behind it.
C3_Witness ==
    /\ last.op = "release" /\ last.ret = OK
    /\ Len(last.events) = 1
    /\ last.events[1].kind = KDBUS_ITEM_NAME_CHANGE
    /\ last.events[1].old # last.events[1].new
    /\ entries[last.name].conn = last.events[1].new
    /\ entries[last.name].queue_list # <<>>

\* the step is a kdbus_name_acquire() of name n by a connection that does
\* not own it
ConflictStep(n) ==
    /\ Acquired(last') /\ last'.name = n
    /\ IsEntry(n) /\ entries[n].conn # last'.conn

TookOver(l, o) ==
    /\ l.op = "acquire" /\ l.ret = OK
    /\ l.events = <<Event(KDBUS_ITEM_NAME_CHANGE, o, l.conn, l.flags,
                          l.name)>>

\* the step is the release of the name of the last call by the connection
\* of the last call
ReleasesLast ==
    /\ last'.op = "release" /\ last'.ret = OK
    /\ last'.conn = last.conn /\ last'.name = last.name

\* C5: activator hand-back. When a connection that is no starter has taken
\* a name over from a starter connection with REPLACE_EXISTING and releases
\* it with nobody waiting, the entry stays indexed, owned by the starter,
\* and no REMOVE is notified.
C5_ActivatorHandBack ==
    [][\A o \in Starters :
          ( /\ TookOver(last, o)
            /\ last.conn \notin Starters
            /\ KDBUS_NAME_REPLACE_EXISTING \in last.flags
            /\ entries[last.name].queue_list = <<>>
            /\ ReleasesLast )
          => /\ entries'[last.name].conn = o
             /\ \A i \in 1..Len(last'.events) :
                    last'.events[i].kind # KDBUS_ITEM_NAME_REMOVE
      ]_vars

\* C6: the displaced owner rejoins the queue. A takeover from an owner O
\* whose flags f_own have QUEUE adds the item {O, f_own} at the tail of the
\* queue in the same step; and when the new owner C releases the name next
\* and no other connection is queued ahead of O, O owns the name again
\* with flags f_own and CHANGE(C, O, f_own, n) is notified.
C6_DisplacedOwnerRejoins ==
    [][/\ \A n \in Names :
            ( /\ ConflictStep(n) /\ last'.ret = OK
              /\ entries'[n].conn = last'.conn
              /\ KDBUS_NAME_QUEUE \in entries[n].flags )
            => entries'[n].queue_list =
                   Append(entries[n].queue_list,
                          [conn |-> entries[n].conn,
                           flags |-> entries[n].flags])
       /\ \A o \in Conns :
            ( /\ TookOver(last, o)
              /\ KDBUS_NAME_QUEUE \in last.own
              /\ \A i \in 1..Len(entries[last.name].queue_list) :
                     entries[last.name].queue_list[i].conn = o
              /\ ReleasesLast )
            => /\ entries'[last.name].conn = o
               /\ entries'[last.name].flags = last.own
               /\ last'.events =
                      <<Event(KDBUS_ITEM_NAME_CHANGE, last.conn, o,
                              last.own, last.name)>>
      ]_vars

\* C7: acquire/release round trip. When a connection has acquired a name
\* that nobody owned and releases it next, the name has no entry again, the
\* connection's names_list and names counter are what they were before the
\* acquire, nothing else changed, and after the ADD of the acquire the
\* release notified the one matching REMOVE.
C7_RoundTrip ==
    [][\A c \in Conns, f \in SUBSET {KDBUS_NAME_REPLACE_EXISTING,
                                     KDBUS_NAME_ALLOW_REPLACEMENT,
                                     KDBUS_NAME_QUEUE} :
          ( /\ last.op = "acquire" /\ last.ret = OK /\ last.conn = c
            /\ last.events =
                   <<Event(KDBUS_ITEM_NAME_ADD, 0, c, f, last.name)>>
            /\ last'.op = "release" /\ last'.conn = c
            /\ last'.name = last.name )
          => /\ last'.ret = OK
             /\ entries' = [entries EXCEPT ![last.name] = NoEntry]
             /\ names_list' =
                    [names_list EXCEPT ![c] = SubSeq(@, 1, Len(@) - 1)]
             /\ names' = [names EXCEPT ![c] = @ - 1]
             /\ names_queue_list' = names_queue_list
             /\ last'.events =
                    <<Event(KDBUS_ITEM_NAME_REMOVE, c, 0, f, last.name)>>
      ]_vars

\* C8: queued acquire result. When an acquire of a name owned by another
\* connection is settled by queueing the caller, the flags handed back to
\* the caller have KDBUS_NAME_IN_QUEUE and nothing is notified.
C8_QueuedAcquireResult ==
    [][\A n \in Names :
          ( /\ ConflictStep(n) /\ last'.ret = OK
            /\ entries'[n].conn = entries[n].conn )
          => /\ KDBUS_NAME_IN_QUEUE \in last'.outflags
             /\ last'.events = <<>>
      ]_vars

\* C10: failure atomicity. An acquire or release that returns EEXIST, EPERM
\* or ENOMEM leaves the entries, every connection's lists and counter and
\* the notification list as they were.
C10_FailureAtomicity ==
    [][( /\ last'.op \in {"acquire", "release"}
         /\ last'.ret \in {EEXIST, EPERM, ENOMEM} )
       => /\ UNCHANGED <<entries, names, names_list, names_queue_list>>
          /\ last'.events = <<>>
      ]_vars

\* C9: notification order under concurrency. The notifications of the calls
\* are sent in the order in which the calls held reg->entries_lock.
C9_NotificationOrder ==
    \A i, j \in 1..Len(broadcast) :
        i < j => broadcast[i] < broadcast[j]

\* C11: cancellation by a waiter. When a release is made by a connection C
\* that has an item in the queue of the name's entry and does not own the
\* name, the call returns OK, the first item of C leaves the entry's queue
\* and C's names_queue_list, nothing is notified, and the owner and the
\* flags of the entry stay; EPERM is returned only to a connection that
\* neither owns the name nor waits for it.
C11_WaiterCancel ==
    [][\A n \in Names :
          ( /\ last'.op = "release" /\ last'.name = n
            /\ last'.conn # NoConn
            /\ IsEntry(n) /\ entries[n].conn # last'.conn
            /\ Waits(n, last'.conn) )
          => /\ last'.ret = OK
             /\ Len(entries'[n].queue_list) = Len(entries[n].queue_list) - 1
             /\ Len(names_queue_list'[last'.conn]) =
                    Len(names_queue_list[last'.conn]) - 1
             /\ last'.events = <<>>
             /\ entries'[n].conn = entries[n].conn
             /\ entries'[n].flags = entries[n].flags
      ]_vars

\* C12: owner quota. kdbus_name_acquire() is reached only for a connection
\* whose names counter is below KDBUS_CONN_MAX_NAMES, and a request that
\* fails with E2BIG leaves the registry as it was.
C12_OwnerQuota ==
    [][/\ Acquired(last') => names[last'.conn] < KDBUS_CONN_MAX_NAMES
       /\ (last'.op = "acquire" /\ last'.ret = E2BIG)
              => UNCHANGED <<entries, names, names_list, names_queue_list>>
      ]_vars

\* C14: a waiter is never the owner. Every item in the queue of an entry
\* belongs to a connection that does not own the entry, and is linked in
\* the names_queue_list of its connection.
C14_WaiterNotOwner ==
    \A n \in Names :
        \A i \in 1..Len(entries[n].queue_list) :
            LET c == entries[n].queue_list[i].conn IN
            /\ c # entries[n].conn
            /\ InList(names_queue_list[c], n)

\* C15: no duplicate waiters. No connection has two items in the queue of
\* one entry.
C15_NoDuplicateWaiters ==
    \A n \in Names :
        \A i, j \in 1..Len(entries[n].queue_list) :
            i # j => entries[n].queue_list[i].conn #
                         entries[n].queue_list[j].conn

\* C17: the activator never blocks a takeover. Whenever the owner of an
\* entry is the entry's starter, the flags of the entry have
\* KDBUS_NAME_ALLOW_REPLACEMENT.
C17_ActivatorAllowsReplacement ==
    \A n \in Names :
        (IsEntry(n) /\ entries[n].conn = entries[n].starter)
            => KDBUS_NAME_ALLOW_REPLACEMENT \in entries[n].flags

\* the number of fields of the registry that point at connection c: e->conn
\* and e->starter of the entries, q->conn of the queue items
ConnFields(c) ==
    Cardinality({n \in Names : IsEntry(n) /\ entries[n].conn = c})
    + Cardinality({n \in Names : IsEntry(n) /\ entries[n].starter = c})
    + Cardinality(UNION {
          {<<n, i>> : i \in {j \in 1..Len(entries[n].queue_list) :
                                 entries[n].queue_list[j].conn = c}} :
          n \in Names})

\* C16: reference balance. Whenever reg->entries_lock is released, the
\* references the registry holds on a connection are as many as the fields
\* that point at it: one for each entry it owns, one for each entry it is
\* the starter of, one for each of its queue items.
C16_ReferenceBalance ==
    \A c \in Conns : refs[c] = ConnFields(c)

\* C19: conn->lock protects the lists of the connection. The call that
\* returned last made every change of a connection's names_list,
\* names_queue_list and names counter while it held the lock of that
\* connection.
C19_ConnLockProtects ==
    last.unprotected = {}

\* the place of a lock in the order bus->lock, reg->entries_lock, conn->lock
LockRank(l) ==
    IF l.lock = "bus" THEN 1 ELSE IF l.lock = "entries" THEN 2 ELSE 3

\* C20: lock order. The call that returned last took every lock while it
\* held only locks that come before it in the order bus->lock,
\* reg->entries_lock, conn->lock; it did not take bus->lock while it held
\* reg->entries_lock.
C20_LockOrder ==
    \A o \in last.order : LockRank(o[1]) < LockRank(o[2])

\* the bytes of a name that are letters, and that are digits
NameAlpha == {"a", "b", "c", "d", "A", "Z"}
NameDigit == {"0", "1", "9"}

\* C13: the name validator. kdbus_name_is_valid() returns true exactly for
\* the strings of at most KDBUS_NAME_MAX_LEN bytes that are two or more
\* elements separated by single periods, no element empty, every element
\* of letters, digits, '_' and '-' only and none starting with a digit; a
\* string without a period is never valid.
C13_NameValidator ==
    name_ok # "none" =>
        ( name_ok = "true" <=>
            /\ Len(name_p) <= KDBUS_NAME_MAX_LEN
            /\ Len(name_p) > 0
            /\ \E i \in 1..Len(name_p) : name_p[i] = "."
            /\ name_p[1] # "." /\ name_p[Len(name_p)] # "."
            /\ \A i \in 1..(Len(name_p) - 1) :
                   ~(name_p[i] = "." /\ name_p[i + 1] = ".")
            /\ \A i \in 1..Len(name_p) :
                   name_p[i] \in NameAlpha \cup NameDigit \cup {".", "_", "-"}
            /\ name_p[1] \notin NameDigit
            /\ \A i \in 1..(Len(name_p) - 1) :
                   name_p[i] = "." => name_p[i + 1] \notin NameDigit )

\* kdbus_name_remove_by_conn(c) has returned
Evicted(c) ==
    /\ ~connected[c]
    /\ \A t \in Threads :
           ~(pc[t] \in {"remove", "send"} /\ cur[t].conn = c
             /\ cur[t].name = <<>>)

\* C18: eviction is complete under interleaving. When
\* kdbus_name_remove_by_conn(C) of a connection C that is no starter has
\* returned, whatever the calls of the other connections did between its
\* two critical sections, no entry is owned by C and no queue item of C is
\* left in any list.
C18_EvictionInterleaved ==
    \A c \in Conns \ Starters :
        Evicted(c) =>
            /\ \A n \in Names : entries[n].conn # c /\ ~Waits(n, c)
            /\ names_queue_list[c] = <<>>
            /\ spliced_queue[c] = <<>>

\* thread t waits in mutex_lock() for a lock that thread u holds
WaitsFor(t, u) ==
    /\ pc[t] = "lock"
    /\ cur[t].todo # <<>>
    /\ Head(cur[t].todo).op = "lock"
    /\ Head(cur[t].todo).lock \in cur[u].held
\* no set of threads in which every thread waits for a lock that a thread
\* of the set holds
NoWaitCycle ==
    \A S \in SUBSET Threads :
        S # {} => \E t \in S : \A u \in S : ~WaitsFor(t, u)

\* C21: deadlock freedom. With threads that run kdbus_cmd_name_acquire(),
\* kdbus_cmd_name_release() (for the caller and for another connection) and
\* kdbus_name_remove_by_conn() at the same time, no state has a cycle of
\* threads that each wait for reg->entries_lock, a conn->lock or bus->lock
\* held by another of them, and with a fair scheduler every call that
\* started returns.
C21_DeadlockFreedom ==
    /\ []NoWaitCycle
    /\ \A t \in Threads : ((pc[t] = "lock") ~> (pc[t] = "idle"))
\* a thread that holds reg->entries_lock waits for a conn->lock or for
\* bus->lock that another thread holds
C21_Witness ==
    \E t \in Threads, u \in Threads :
        /\ t # u
        /\ WaitsFor(t, u)
        /\ entries_lock \in cur[t].held

\* C22: list size agreement. When kdbus_cmd_name_list() has written its
\* last record, also when other tasks changed bus->conn_hash or acquired or
\* released names meanwhile, the bytes written (pos - off) are the size that
\* pass 1 computed, that was allocated, and that the header states.
C22_ListSizeAgreement ==
    \A t \in Threads :
        pc[t] = "listed" => cur[t].pos - cur[t].off = cur[t].size

\* the events of a notification list that carry name n, in list order
NameEvents(evs, n) == SelectSeq(evs, LAMBDA ev : ev.name = n)
\* the id of the owner of an entry, 0 when there is no entry
OwnerId(e) == IF e = NoEntry THEN 0 ELSE e.conn
\* ADD(0, c), CHANGE(old, new) with old # new, REMOVE(old, 0)
EventShape(ev) ==
    /\ ev.kind = KDBUS_ITEM_NAME_ADD => ev.old = 0 /\ ev.new # 0
    /\ ev.kind = KDBUS_ITEM_NAME_CHANGE =>
           ev.old # 0 /\ ev.new # 0 /\ ev.old # ev.new
    /\ ev.kind = KDBUS_ITEM_NAME_REMOVE => ev.old # 0 /\ ev.new = 0
\* The events a call emits for name n continue the chain of the name: the
\* first starts at the owner before the call, each next one starts where
\* the one before ended, and the last ends at the owner after the call. A
\* call without an event for the name leaves its owner.
ChainStep(n) ==
    LET evs == NameEvents(last'.events, n)
    IN IF evs = <<>> THEN OwnerId(entries'[n]) = OwnerId(entries[n])
       ELSE /\ evs[1].old = OwnerId(entries[n])
            /\ evs[Len(evs)].new = OwnerId(entries'[n])
            /\ \A i \in 1..Len(evs) : EventShape(evs[i])
            /\ \A i \in 1..(Len(evs) - 1) : evs[i + 1].old = evs[i].new

\* C23: per-name event chain. In a sequence of KDBUS_CMD_NAME_ACQUIRE,
\* KDBUS_CMD_NAME_RELEASE and kdbus_name_remove_by_conn() calls the events
\* of one name form a chain: it starts with ADD(0, c), every CHANGE(old,
\* new) has old equal to the new id of the event before it and old # new,
\* new is the owner of the entry after the call, and REMOVE(old, 0) has old
\* equal to the new id of the event before it and is followed only by an
\* ADD.
C23_EventChain == [][\A n \in Names : ChainStep(n)]_vars

====
